---- MODULE Spec2Model ----
(***************************************************************************)
(* The chord voicing engine of timber-chord-finder: generateChords and the *)
(* helpers it calls (src/components/WoodGrain.tsx, lines 42-554).          *)
(*                                                                         *)
(* One invocation of generateChords is a small process: Call binds the     *)
(* five arguments and creates the invocation's locals, SearchStep is one   *)
(* call of the inner function search(), RemoveStep is one iteration of the *)
(* outer loop of the subset removal, then the sort and the final map run.  *)
(* String indices are 0-based as in the source; a shape is a sequence, so  *)
(* string s of a shape is shape[s + 1].                                    *)
(*                                                                         *)
(* Around the engine the module models the selected variation of App and   *)
(* its navigation (src/App.tsx, src/components/Fretboard.tsx), the audio   *)
(* functions playNote and playChord (src/utils/audioEngine.ts) and a       *)
(* scroll picker (HorizontalWheelRoller, Controls.handleScroll); each has  *)
(* its own specification and leaves the variables of the others alone.     *)
(***************************************************************************)
EXTENDS Integers, Sequences, FiniteSets, TLC

VARIABLES
    rootVal,        \* argument rootVal
    intervals,      \* argument intervals (a sequence of numbers)
    tuning,         \* argument tuning (a sequence of open-string pitches)
    capo,           \* argument capo
    bassNoteVal,    \* argument bassNoteVal: <<>> is null, <<b>> is the number b
    pc,             \* position of the invocation
    stack,          \* pending calls of search(), innermost first
    iterationCount, \* local iterationCount
    rawShapes,      \* local rawShapes
    validChords,    \* local validChords
    toRemove,       \* local toRemove (0-based indices into validChords)
    removeIdx,      \* loop variable i of the subset removal
    result,         \* the returned ChordVariation list
    calls,          \* number of invocations started so far
    history,        \* observer: the (arguments, returned list) of every
                    \* completed invocation, oldest first
    variations,     \* App: the memoised list generateChords returned
    variationIndex, \* App: state variationIndex
    resetPending,   \* App: the effect that resets variationIndex has not run
    stateRef,       \* Fretboard: stateRef.current
    lastNav,        \* observer: the latest call of setVariationIndex by a
                    \* navigation handler
    timers,         \* audio: the timeouts playChord has set and not yet fired
    played,         \* observer: the notes started since the latest gesture
    gesture,        \* observer: the latest playChord or playNote request
    selectedItem,   \* picker: prop selectedItem (state of the parent)
    containerCenter,\* picker: container.scrollLeft + clientWidth / 2
    scrollTimeout,  \* picker: scrollTimeout.current
    timeouts,       \* picker: the timeouts set and neither fired nor cleared
    sinceScroll,    \* observer: time since the latest scroll event
    burstCalls,     \* observer: onSelect calls since the latest scroll event
    lastSelect      \* observer: the latest onSelect call of the picker

engineVars == <<rootVal, intervals, tuning, capo, bassNoteVal, pc, stack,
                iterationCount, rawShapes, validChords, toRemove, removeIdx,
                result, calls, history>>

navVars == <<variations, variationIndex, resetPending, stateRef, lastNav>>

audioVars == <<timers, played, gesture>>

pickerVars == <<selectedItem, containerCenter, scrollTimeout, timeouts, sinceScroll,
                burstCalls, lastSelect>>

uiVars == <<navVars, audioVars, pickerVars>>

vars == <<engineVars, uiVars>>

(***************************************************************************)
(* Program constants                                                       *)
(***************************************************************************)
numStrings == 6
maxFretSearch == 15
maxPhysicalFret == 22
\* variant of maxIterations: a cap below the work of the library's chords
maxIterationsLow == 10 * 10
maxIterations == 10000
minFretStart == 999
maxFretStart == -999

(***************************************************************************)
(* Bounds of the model                                                     *)
(***************************************************************************)
\* invocations made one after another under SpecRepeat
MaxCalls == 3
\* capo positions submitted: 0..MaxCapo, one past the neck's last fret
MaxCapo == 23

(***************************************************************************)
(* Arithmetic of the source language                                       *)
(***************************************************************************)
\* JavaScript's a % 12: the result takes the sign of the dividend.
Mod12(a) == IF a >= 0 THEN a % 12 ELSE -((-a) % 12)

Min2(a, b) == IF a < b THEN a ELSE b

RECURSIVE Pow2(_)
Pow2(n) == IF n = 0 THEN 1 ELSE 2 * Pow2(n - 1)

\* (mask & (1 << i)) !== 0
HasBit(mask, i) == (mask \div Pow2(i)) % 2 = 1

\* mask | (1 << i)
SetBit(mask, i) == IF HasBit(mask, i) THEN mask ELSE mask + Pow2(i)

\* Math.min(...xs) and Math.max(...xs) of a non-empty sequence
RECURSIVE MinOf(_)
MinOf(xs) ==
    IF Len(xs) = 1 THEN xs[1]
    ELSE LET m == MinOf(Tail(xs)) IN IF xs[1] < m THEN xs[1] ELSE m

RECURSIVE MaxOf(_)
MaxOf(xs) ==
    IF Len(xs) = 1 THEN xs[1]
    ELSE LET m == MaxOf(Tail(xs)) IN IF xs[1] > m THEN xs[1] ELSE m

\* s.filter((f) => f > 0)
Fretted(s) == SelectSeq(s, LAMBDA f : f > 0)

\* s.filter((f) => f !== -1)
Sounding(s) == SelectSeq(s, LAMBDA f : f # -1)

\* xs.indexOf(x): 0-based, -1 when absent
RECURSIVE IndexFrom(_, _, _)
IndexFrom(xs, x, k) ==
    IF k > Len(xs) THEN -1
    ELSE IF xs[k] = x THEN k - 1
    ELSE IndexFrom(xs, x, k + 1)

IndexOf(xs, x) == IndexFrom(xs, x, 1)

Has(xs, x) == \E k \in 1..Len(xs) : xs[k] = x

(***************************************************************************)
(* Note names.  A name is a sequence of characters; "#" stands for the     *)
(* sharp sign of the source.                                               *)
(***************************************************************************)
SHARP_NAMES ==
    << <<"C">>, <<"C", "#">>, <<"D">>, <<"D", "#">>, <<"E">>, <<"F">>,
       <<"F", "#">>, <<"G">>, <<"G", "#">>, <<"A">>, <<"A", "#">>, <<"B">> >>

\* getNoteName(val) with useFlats = false
getNoteName(val) == SHARP_NAMES[Mod12(val) + 1]

\* name.replace(ch, ""): drops the first occurrence of ch
RECURSIVE Replace(_, _)
Replace(name, ch) ==
    IF name = <<>> THEN <<>>
    ELSE IF name[1] = ch THEN Tail(name)
    ELSE <<name[1]>> \o Replace(Tail(name), ch)

\* the value undefined, where a shape name is expected
undefined == <<>>

(***************************************************************************)
(* CAGED patterns and the shape classifier                                 *)
(***************************************************************************)
\* offsets[s+1] is <<>> where the source has null, <<k>> where it has k
CAGED_PATTERNS ==
    << [name |-> <<"E">>, anchorString |-> 0,
        offsets |-> << <<0>>, <<2>>, <<2>>, <<1>>, <<0>>, <<0>> >>],
       [name |-> <<"G">>, anchorString |-> 0,
        offsets |-> << <<0>>, <<-1>>, <<-3>>, <<-3>>, <<-3>>, <<0>> >>],
       [name |-> <<"A">>, anchorString |-> 1,
        offsets |-> << <<>>, <<0>>, <<2>>, <<2>>, <<2>>, <<0>> >>],
       [name |-> <<"C">>, anchorString |-> 1,
        offsets |-> << <<>>, <<0>>, <<-1>>, <<-3>>, <<-2>>, <<-3>> >>],
       [name |-> <<"D">>, anchorString |-> 2,
        offsets |-> << <<>>, <<>>, <<0>>, <<2>>, <<3>>, <<2>> >>] >>

\* variant of isStandard: every 6-string tuning passes
isStandardAlways(t) == Len(t) = 6

\* the adjacent-string test both classifiers start with; t is the tuning
\* they are handed (the nut tuning)
isStandard(t) ==
    LET diff(i) ==
            LET d == Mod12(t[i + 2] - t[i + 1])
            IN  IF d < 0 THEN d + 12 ELSE d
    IN  /\ diff(0) = 5
        /\ diff(1) = 5
        /\ diff(2) = 5
        /\ diff(3) = 4
        /\ diff(4) = 5

\* variant of PatternMatches: strings without an offset may sound
PatternMatchesLoose(shape, pattern, anchorFret) ==
    \A s \in 0..5 :
        LET shapeFret == shape[s + 1]
            offset == pattern.offsets[s + 1]
        IN  offset # <<>> => shapeFret = anchorFret + offset[1]

\* the inner loop of identifyCAGEDShape for one pattern
PatternMatches(shape, pattern, anchorFret) ==
    \A s \in 0..5 :
        LET shapeFret == shape[s + 1]
            offset == pattern.offsets[s + 1]
        IN  IF offset = <<>>
            THEN shapeFret = -1
            ELSE shapeFret = anchorFret + offset[1]

\* the first pattern, from index k on, that matches; undefined when none
RECURSIVE IdentifyFrom(_, _, _, _)
IdentifyFrom(shape, root, t, k) ==
    IF k > Len(CAGED_PATTERNS) THEN undefined
    ELSE LET pattern == CAGED_PATTERNS[k]
             anchorFret == shape[pattern.anchorString + 1]
             noteAtAnchor == Mod12(t[pattern.anchorString + 1] + anchorFret)
         IN  IF anchorFret = -1 THEN IdentifyFrom(shape, root, t, k + 1)
             ELSE IF noteAtAnchor # root THEN IdentifyFrom(shape, root, t, k + 1)
             ELSE IF PatternMatches(shape, pattern, anchorFret) THEN pattern.name
             ELSE IdentifyFrom(shape, root, t, k + 1)

identifyCAGEDShape(shape, root, t) ==
    IF ~isStandard(t) THEN undefined ELSE IdentifyFrom(shape, root, t, 1)

\* variant of PatternScore: a deviating note costs nothing
PatternScoreNoPenalty(shape, pattern, rootFret) ==
    LET RECURSIVE Go(_, _, _)
        Go(s, score, matches) ==
            IF s = 6 THEN [score |-> score, matches |-> matches]
            ELSE LET shapeFret == shape[s + 1]
                     offset == pattern.offsets[s + 1]
                 IN  IF offset = <<>> THEN Go(s + 1, score, matches)
                     ELSE IF shapeFret = rootFret + offset[1]
                          THEN Go(s + 1, score + 2, matches + 1)
                     ELSE Go(s + 1, score, matches)
    IN  Go(0, 0, 0)

\* score and match count of one pattern anchored at a string holding the root
PatternScore(shape, pattern, rootFret) ==
    LET RECURSIVE Go(_, _, _)
        Go(s, score, matches) ==
            IF s = 6 THEN [score |-> score, matches |-> matches]
            ELSE LET shapeFret == shape[s + 1]
                     offset == pattern.offsets[s + 1]
                 IN  IF offset = <<>> THEN Go(s + 1, score, matches)
                     ELSE IF shapeFret = rootFret + offset[1]
                          THEN Go(s + 1, score + 2, matches + 1)
                     ELSE IF shapeFret # -1 THEN Go(s + 1, score - 1, matches)
                     ELSE Go(s + 1, score, matches)
    IN  Go(0, 0, 0)

\* the scores of the qualifying (string, pattern) pairs
QualifyingScores(shape, root, t) ==
    { PatternScore(shape, CAGED_PATTERNS[k], shape[r + 1]).score :
        <<r, k>> \in
          { x \in (0..5) \X (1..Len(CAGED_PATTERNS)) :
              /\ shape[x[1] + 1] # -1
              /\ Mod12(t[x[1] + 1] + shape[x[1] + 1]) = root
              /\ CAGED_PATTERNS[x[2]].anchorString = x[1]
              /\ PatternScore(shape, CAGED_PATTERNS[x[2]],
                              shape[x[1] + 1]).matches >= 3 } }

getCAGEDScore(shape, root, t) ==
    IF ~isStandard(t) THEN 0
    ELSE LET q == QualifyingScores(shape, root, t)
         IN  IF q = {} THEN 0
             ELSE CHOOSE m \in q : \A x \in q : x <= m

(***************************************************************************)
(* generateChords: the locals computed from the arguments                  *)
(***************************************************************************)
\* Array.from(new Set(notes)): first occurrences, in order
RECURSIVE Distinct(_, _)
Distinct(notes, acc) ==
    IF notes = <<>> THEN acc
    ELSE IF Has(acc, notes[1]) THEN Distinct(Tail(notes), acc)
    ELSE Distinct(Tail(notes), Append(acc, notes[1]))

\* targetNotes, in insertion order (it is read back as targetNotesList)
TargetNotesOf(root, ivs, bass) ==
    LET fromIntervals ==
            Distinct([k \in 1..Len(ivs) |-> Mod12(root + ivs[k])], <<>>)
    IN  IF bass # <<>>
        THEN Distinct(<<Mod12(bass[1])>>, fromIntervals)
        ELSE fromIntervals

targetNotesList == TargetNotesOf(rootVal, intervals, bassNoteVal)

effectiveBass == IF bassNoteVal # <<>> THEN bassNoteVal[1] ELSE rootVal

\* variant of nutTuning: the capo is not added
nutTuningNoCapo == [k \in 1..Len(tuning) |-> tuning[k]]

\* tuning.map((t) => t + capo)
nutTuning == [k \in 1..Len(tuning) |-> tuning[k] + capo]

\* variant of effectiveMaxFret: the capo is not subtracted from the neck
effectiveMaxFretNoCapo == Min2(maxFretSearch, maxPhysicalFret)

effectiveMaxFret == Min2(maxFretSearch, maxPhysicalFret - capo)

\* variant of fullMask: the shift is one short
fullMaskShort == Pow2(Len(targetNotesList) - 1) - 1

fullMask == Pow2(Len(targetNotesList)) - 1

\* the frets 1..effectiveMaxFret of string s that sound a target note
RECURSIVE FretsFrom(_, _)
FretsFrom(s, f) ==
    IF f > effectiveMaxFret THEN <<>>
    ELSE IF Has(targetNotesList, Mod12(nutTuning[s + 1] + f))
         THEN <<f>> \o FretsFrom(s, f + 1)
    ELSE FretsFrom(s, f + 1)

\* variant of validFrets: the open string is a candidate whatever it sounds
validFretsOpenAlways(s) == <<-1, 0>> \o FretsFrom(s, 1)

\* validFretsPerString[s]
validFrets(s) ==
    <<-1>>
    \o (IF Has(targetNotesList, Mod12(nutTuning[s + 1])) THEN <<0>> ELSE <<>>)
    \o FretsFrom(s, 1)

(***************************************************************************)
(* generateChords: one call of search()                                    *)
(***************************************************************************)
\* variant of NotesMissing: one more note is counted as missing
NotesMissingPlusOne(coveredMask) ==
    Cardinality({i \in 0..(Len(targetNotesList) - 1) : ~HasBit(coveredMask, i)})
      + 1

\* notesMissing
NotesMissing(coveredMask) ==
    Cardinality({i \in 0..(Len(targetNotesList) - 1) : ~HasBit(coveredMask, i)})

\* variant of BassOk: only string 0 counts as the first sounding string
BassOkStringZero(fr, fret) ==
    LET note == Mod12(nutTuning[fr.stringIdx + 1] + fret)
    IN  (fret # -1 /\ fr.stringIdx = 0) => note = effectiveBass

\* the bass note check: a candidate on the first sounding string must sound
\* effectiveBass
BassOk(fr, fret) ==
    LET isFirstSounding ==
            \/ fr.stringIdx = 0
            \/ \A k \in 1..Len(fr.currentShape) : fr.currentShape[k] = -1
        note == Mod12(nutTuning[fr.stringIdx + 1] + fret)
    IN  (fret # -1 /\ isFirstSounding) => note = effectiveBass

nextMinOf(fr, fret) ==
    IF fret > 0 /\ fret < fr.minFret THEN fret ELSE fr.minFret

nextMaxOf(fr, fret) ==
    IF fret > 0 /\ fret > fr.maxFret THEN fret ELSE fr.maxFret

\* variant of ErgonomicOk: the box is one fret wider
ErgonomicOkWideBox(fr, fret) ==
    LET nextMin == nextMinOf(fr, fret)
        nextMax == nextMaxOf(fr, fret)
    IN  /\ fret > 0 => ~(nextMax - nextMin > 4)
        /\ fret > 0 => ~(fr.hasOpen /\ nextMax > 4)
        /\ ~(fret = 0 /\ nextMax > 4 /\ nextMax # maxFretStart)

\* variant of ErgonomicOk: an open string is not checked against the
\* frets already held
ErgonomicOkOpenUnchecked(fr, fret) ==
    LET nextMin == nextMinOf(fr, fret)
        nextMax == nextMaxOf(fr, fret)
    IN  /\ fret > 0 => ~(nextMax - nextMin > 3)
        /\ fret > 0 => ~(fr.hasOpen /\ nextMax > 4)

\* span check and open string compatibility
ErgonomicOk(fr, fret) ==
    LET nextMin == nextMinOf(fr, fret)
        nextMax == nextMaxOf(fr, fret)
    IN  /\ fret > 0 => ~(nextMax - nextMin > 3)
        /\ fret > 0 => ~(fr.hasOpen /\ nextMax > 4)
        /\ ~(fret = 0 /\ nextMax > 4 /\ nextMax # maxFretStart)

\* variant of FingersOk: one more finger above the barre
FingersOkFourAbove(fr, fret) ==
    LET tempShape == Append(fr.currentShape, fret)
        frettedNotes == Fretted(tempShape)
        effectiveMin == IF Len(frettedNotes) > 0 THEN MinOf(frettedNotes) ELSE 0
        notesAboveMin ==
            Len(SelectSeq(frettedNotes, LAMBDA f : f > effectiveMin))
    IN  /\ ~(effectiveMin > 0 /\ notesAboveMin > 4)
        /\ ~(effectiveMin = 0 /\ Len(frettedNotes) > 4)

\* finger counting on tempShape
FingersOk(fr, fret) ==
    LET tempShape == Append(fr.currentShape, fret)
        frettedNotes == Fretted(tempShape)
        effectiveMin == IF Len(frettedNotes) > 0 THEN MinOf(frettedNotes) ELSE 0
        notesAboveMin ==
            Len(SelectSeq(frettedNotes, LAMBDA f : f > effectiveMin))
    IN  /\ ~(effectiveMin > 0 /\ notesAboveMin > 3)
        /\ ~(effectiveMin = 0 /\ Len(frettedNotes) > 4)

nextCoveredMaskOf(fr, fret) ==
    IF fret = -1 THEN fr.coveredMask
    ELSE LET noteIdx ==
                 IndexOf(targetNotesList, Mod12(nutTuning[fr.stringIdx + 1] + fret))
         IN  IF noteIdx # -1 THEN SetBit(fr.coveredMask, noteIdx)
             ELSE fr.coveredMask

\* the arguments of the recursive call made for candidate fret
ChildOf(fr, fret) ==
    [stringIdx |-> fr.stringIdx + 1,
     currentShape |-> Append(fr.currentShape, fret),
     minFret |-> nextMinOf(fr, fret),
     maxFret |-> nextMaxOf(fr, fret),
     hasOpen |-> (fr.hasOpen \/ fret = 0),
     coveredMask |-> nextCoveredMaskOf(fr, fret)]

\* a candidate no pruning rule skips
Admitted(fr, fret) ==
    /\ BassOk(fr, fret)
    /\ ErgonomicOk(fr, fret)
    /\ FingersOk(fr, fret)

\* the recursive calls the candidate loop of call fr makes, in order
Children(fr) ==
    LET candidates == validFrets(fr.stringIdx)
        kept == SelectSeq(candidates, LAMBDA fret : Admitted(fr, fret))
    IN  [k \in 1..Len(kept) |-> ChildOf(fr, kept[k])]

\* search(0, [], 999, -999, false, 0)
startFrame ==
    [stringIdx |-> 0, currentShape |-> <<>>, minFret |-> minFretStart,
     maxFret |-> maxFretStart, hasOpen |-> FALSE, coveredMask |-> 0]

(***************************************************************************)
(* generateChords: removal of subsets                                      *)
(***************************************************************************)
\* A.every((f, s) => f === -1 || f === B[s])
isSubset(A, B) == \A s \in 1..Len(A) : A[s] = -1 \/ A[s] = B[s]

\* variant of subsetOfAnother: chord i is compared with the earlier ones only
subsetOfEarlier(chords, i, removed) ==
    \E j \in 0..(i - 1) :
        /\ j \notin removed
        /\ isSubset(chords[i + 1], chords[j + 1])
        /\ ~isSubset(chords[j + 1], chords[i + 1])

\* variant of subsetOfAnother: chord i is removed when it covers chord j
subsetOfAnotherReversed(chords, i, removed) ==
    \E j \in 0..(Len(chords) - 1) :
        /\ i # j
        /\ j \notin removed
        /\ isSubset(chords[j + 1], chords[i + 1])
        /\ ~isSubset(chords[i + 1], chords[j + 1])

\* the loop over j for chord i (0-based): some chord j that is not removed
\* covers chord i and is not covered by it
subsetOfAnother(chords, i, removed) ==
    \E j \in 0..(Len(chords) - 1) :
        /\ i # j
        /\ j \notin removed
        /\ isSubset(chords[i + 1], chords[j + 1])
        /\ ~isSubset(chords[j + 1], chords[i + 1])

\* validChords.filter((_, i) => !toRemove.has(i))
withoutRemoved(chords, removed) ==
    LET indexed == [k \in 1..Len(chords) |-> [at |-> k - 1, chord |-> chords[k]]]
        kept == SelectSeq(indexed, LAMBDA e : e.at \notin removed)
    IN  [k \in 1..Len(kept) |-> kept[k].chord]

(***************************************************************************)
(* generateChords: the sort                                                *)
(***************************************************************************)
getMinFret(s) == IF Len(Fretted(s)) > 0 THEN MinOf(Fretted(s)) ELSE 0

getFingerCount(s) == Len(Fretted(s))

getSpan(s) ==
    IF Len(Fretted(s)) = 0 THEN 0 ELSE MaxOf(Fretted(s)) - MinOf(Fretted(s))

\* the mutes between the first and the last sounding string
getMuteScore(s) ==
    LET sounding == {i \in 0..5 : s[i + 1] # -1}
    IN  IF sounding = {} THEN 0
        ELSE LET first == CHOOSE i \in sounding : \A k \in sounding : i <= k
                 last == CHOOSE i \in sounding : \A k \in sounding : k <= i
             IN  Cardinality({i \in first..last : s[i + 1] = -1})

\* rootName of the comparator
rootName == Replace(Replace(getNoteName(rootVal), "#"), "b")

\* what the comparator computes from one of its two arguments
measures(s) ==
    [isRootMatch |-> identifyCAGEDShape(s, rootVal, nutTuning) = rootName,
     fingers |-> getFingerCount(s),
     min |-> getMinFret(s),
     span |-> getSpan(s),
     score |-> getCAGEDScore(s, rootVal, nutTuning),
     count |-> Len(Sounding(s)),
     muteScore |-> getMuteScore(s)]

\* variant of compare: the finger count difference has its sign flipped
compareMoreFingersFirst(a, b) ==
    IF a.isRootMatch /\ ~b.isRootMatch THEN -1
    ELSE IF ~a.isRootMatch /\ b.isRootMatch THEN 1
    ELSE IF a.fingers # b.fingers THEN b.fingers - a.fingers
    ELSE IF a.min # b.min THEN a.min - b.min
    ELSE IF a.span # b.span THEN a.span - b.span
    ELSE IF a.score # b.score THEN b.score - a.score
    ELSE IF a.count # b.count THEN b.count - a.count
    ELSE a.muteScore - b.muteScore

\* variant of compare: the span is compared before the position
compareSpanFirst(a, b) ==
    IF a.isRootMatch /\ ~b.isRootMatch THEN -1
    ELSE IF ~a.isRootMatch /\ b.isRootMatch THEN 1
    ELSE IF a.fingers # b.fingers THEN a.fingers - b.fingers
    ELSE IF a.span # b.span THEN a.span - b.span
    ELSE IF a.min # b.min THEN a.min - b.min
    ELSE IF a.score # b.score THEN b.score - a.score
    ELSE IF a.count # b.count THEN b.count - a.count
    ELSE a.muteScore - b.muteScore

\* the comparator, on the measures of its two arguments: negative when the
\* first sorts before the second
compare(a, b) ==
    IF a.isRootMatch /\ ~b.isRootMatch THEN -1
    ELSE IF ~a.isRootMatch /\ b.isRootMatch THEN 1
    ELSE IF a.fingers # b.fingers THEN a.fingers - b.fingers
    ELSE IF a.min # b.min THEN a.min - b.min
    ELSE IF a.span # b.span THEN a.span - b.span
    ELSE IF a.score # b.score THEN b.score - a.score
    ELSE IF a.count # b.count THEN b.count - a.count
    ELSE a.muteScore - b.muteScore

\* the array with the elements of f, each computed once
ArrayOf(f) == f \o <<>>

\* the place of each chord after a stable sort: chord k goes behind the
\* chords the comparator puts before it and behind its ties that came earlier
Places(m) ==
    ArrayOf([k \in 1..Len(m) |->
        1 + Cardinality({j \in 1..Len(m) :
              \/ compare(m[j], m[k]) < 0
              \/ (compare(m[j], m[k]) = 0 /\ j < k)})])

\* the chords put at their places
Arrange(chords, placeOf) ==
    [r \in 1..Len(chords) |->
        chords[CHOOSE k \in 1..Len(chords) : placeOf[k] = r]]

\* validChords.sort(comparator): Array.prototype.sort is a stable sort
sortChords(chords) ==
    Arrange(chords,
            Places(ArrayOf([k \in 1..Len(chords) |-> measures(chords[k])])))

(***************************************************************************)
(* generateChords: the returned list                                       *)
(***************************************************************************)
\* variant of baseFretOf: the base fret is the lowest fretted value itself
baseFretLowest(shape) == IF getMinFret(shape) > 0 THEN getMinFret(shape) ELSE 1

\* const baseFret = minFret > 2 ? minFret : 1
baseFretOf(shape) == IF getMinFret(shape) > 2 THEN getMinFret(shape) ELSE 1

toVariation(shape) ==
    [frets |-> shape,
     baseFret |-> baseFretOf(shape),
     cagedShape |-> identifyCAGEDShape(shape, rootVal, nutTuning)]

(***************************************************************************)
(* The arguments the model calls generateChords with                       *)
(***************************************************************************)
STANDARD_TUNING == <<4, 9, 2, 7, 11, 4>>
DADGAD == <<2, 9, 2, 7, 9, 2>>

Roots == {0, 1, 4, 12}
IntervalSets == {<<0, 4, 7>>, <<0, 7>>, <<0>>, <<4, 7>>}
Tunings == {STANDARD_TUNING, DADGAD}
Capos == 0..MaxCapo
Basses == {<<>>, <<4>>}

Args(S_root, S_ivs, S_tun, S_capo, S_bass) ==
    [rootVal : S_root, intervals : S_ivs, tuning : S_tun, capo : S_capo,
     bassNoteVal : S_bass]

Inputs == Args(Roots, IntervalSets, Tunings, Capos, Basses)

RepeatInputs ==
    Args({0}, {<<0, 4, 7>>, <<0, 7>>}, {STANDARD_TUNING}, {0, 2}, {<<>>})

\* the arguments of the invocations whose search is compared with the
\* enumeration of all assignments
SearchInputs ==
    Args({0}, {<<0, 4, 7>>, <<0, 7>>, <<0, 4, 7, 10>>}, Tunings, {0, 10, 20},
         Basses)

\* TUNINGS: the offsets of the 7 tunings of the library
TUNINGS ==
    << <<4, 9, 2, 7, 11, 4>>, <<2, 9, 2, 7, 11, 4>>, <<2, 9, 2, 7, 11, 2>>,
       <<2, 9, 2, 7, 9, 2>>, <<2, 9, 6, 9, 9, 2>>, <<2, 7, 2, 7, 11, 2>>,
       <<4, 11, 4, 8, 11, 4>> >>

\* CHORD_TYPES: the intervals of the 30 chord types of the library
CHORD_TYPES ==
    << <<0, 4, 7>>, <<0, 3, 7>>, <<0, 7>>, <<0, 2, 7>>, <<0, 5, 7>>,
       <<0, 4, 7, 10>>, <<0, 4, 7, 11>>, <<0, 3, 7, 10>>, <<0, 4, 6, 10>>,
       <<0, 4, 8, 10>>, <<0, 3, 6, 10>>, <<0, 3, 7, 11>>, <<0, 5, 7, 10>>,
       <<0, 4, 7, 9>>, <<0, 3, 7, 9>>, <<0, 4, 7, 9, 2>>,
       <<0, 4, 7, 10, 2>>, <<0, 4, 7, 11, 2>>, <<0, 3, 7, 10, 2>>,
       <<0, 3, 7, 11, 2>>, <<0, 4, 7, 2>>, <<0, 3, 7, 2>>,
       <<0, 4, 7, 10, 2, 5>>, <<0, 4, 7, 11, 2, 5>>, <<0, 3, 7, 10, 2, 5>>,
       <<0, 3, 6>>, <<0, 3, 6, 9>>, <<0, 3, 6, 11>>, <<0, 4, 8>>,
       <<0, 4, 8, 11>> >>

Elements(xs) == {xs[k] : k \in 1..Len(xs)}

\* arguments the application passes: the roots C and A, every chord type,
\* every tuning, the first and the last capo position, no bass or the bass E
AppInputs ==
    Args({0, 9}, Elements(CHORD_TYPES), Elements(TUNINGS), {0, 12},
         {<<>>, <<4>>})

\* arguments with a capo the search limit does not feel (capo <= 7)
CapoInputs ==
    Args({0, 1}, {<<0, 4, 7>>, <<0, 7>>}, Tunings, {0, 2, 7}, Basses)

\* the same call without the capo, on the tuning raised by the capo
Shifted(in) ==
    [in EXCEPT !.tuning = [k \in 1..Len(in.tuning) |-> in.tuning[k] + in.capo],
               !.capo = 0]

\* arguments of calls for a root with its major third only, near the end
\* of the neck
DyadInputs == Args({2, 7}, {<<0, 4>>}, {STANDARD_TUNING}, {0, 19, 20}, {<<>>})

args ==
    [rootVal |-> rootVal, intervals |-> intervals, tuning |-> tuning,
     capo |-> capo, bassNoteVal |-> bassNoteVal]

(***************************************************************************)
(* The application around the engine: App keeps the selected variation,    *)
(* Fretboard navigates it (src/App.tsx, src/components/Fretboard.tsx).     *)
(* A nullable value is a sequence: <<>> is null, <<x>> is the value x.     *)
(***************************************************************************)
MaxVariations == 3

null == <<>>

\* the list the variations memo holds when generateChords returned n
\* voicings; voicing k of the list is written k
ListOf(n) == [k \in 1..n |-> k]

\* JavaScript's a % n for n > 0: the result has the sign of a
Rem(a, n) == IF a >= 0 THEN a % n ELSE -((-a) % n)

\* variations[variationIndex] || null
currentVariation ==
    IF variationIndex + 1 \in DOMAIN variations
    THEN <<variations[variationIndex + 1]>>
    ELSE null

\* the props Fretboard received in the render that is on screen
Rendered ==
    [variationIndex |-> variationIndex, totalVariations |-> Len(variations)]

\* variant of nextIndex: no wrap at the end of the list
nextIndexNoWrap(i, total) == i + 1

\* (variationIndex + 1) % totalVariations
nextIndex(i, total) == Rem(i + 1, total)

\* (variationIndex - 1 + totalVariations) % totalVariations
prevIndex(i, total) == Rem(i - 1 + total, total)

(***************************************************************************)
(* Audio (src/utils/audioEngine.ts): playNote and playChord.  A started    *)
(* note is recorded with the arguments playNote received.                  *)
(***************************************************************************)
BASE_MIDI_NOTES == <<40, 45, 50, 55, 59, 64>>

STANDARD_OFFSETS == <<4, 9, 2, 7, 11, 4>>

\* while (diff > 6) diff -= 12
RECURSIVE lowered(_)
lowered(diff) == IF diff > 6 THEN lowered(diff - 12) ELSE diff

\* while (diff < -6) diff += 12
RECURSIVE raised(_)
raised(diff) == IF diff < -6 THEN raised(diff + 12) ELSE diff

\* variant of midiNoteOf: the capo is not added
midiNoteNoCapo(stringIdx, fret, tuningOffsets, capoArg) ==
    BASE_MIDI_NOTES[stringIdx + 1]
      + raised(lowered(tuningOffsets[stringIdx + 1]
                         - STANDARD_OFFSETS[stringIdx + 1]))
      + fret

\* midiNote of playNote(stringIdx, fret, tuningOffsets, capo)
midiNoteOf(stringIdx, fret, tuningOffsets, capoArg) ==
    BASE_MIDI_NOTES[stringIdx + 1]
      + raised(lowered(tuningOffsets[stringIdx + 1]
                         - STANDARD_OFFSETS[stringIdx + 1]))
      + capoArg + fret

\* playNote: the notes started, after a call of playNote when log is the
\* notes started before it
playNote(log, stringIdx, fret, tuningOffsets, capoArg) ==
    IF fret = -1 THEN log
    ELSE Append(log, [stringIdx |-> stringIdx, fret |-> fret,
                      tuningOffsets |-> tuningOffsets, capo |-> capoArg,
                      midiNote |-> midiNoteOf(stringIdx, fret, tuningOffsets,
                                              capoArg)])

\* the timeouts playChord sets: frets.forEach with delay i * 0.04 s
chordTimers(frets, tuningOffsets, capoArg) ==
    {[stringIdx |-> i, fret |-> frets[i + 1], tuningOffsets |-> tuningOffsets,
      capo |-> capoArg, delay |-> i * 40] :
       i \in {j \in 0..(Len(frets) - 1) : frets[j + 1] # -1}}

\* the arguments the audio functions are called with
ChordShapes ==
    {<<-1, 3, 2, 0, 1, 0>>, <<0, 2, 2, 1, 0, 0>>, <<-1, -1, 0, 2, 3, 2>>,
     <<3, -1, 0, 0, -1, 3>>, <<-1, -1, -1, -1, -1, -1>>}

AudioTunings ==
    Elements(TUNINGS) \cup {<<11, 2, 9, 0, 4, 11>>, <<10, 3, 8, 1, 5, 10>>}

AudioCapos == {0, 1, 7, 12}

NoteFrets == {-1, 0, 1, 5, 12, 22}

(***************************************************************************)
(* A scroll picker (HorizontalWheelRoller of src/App.tsx, the pickers of   *)
(* src/components/Controls.tsx).  Positions are pixels from the centre of  *)
(* the first item; time is in milliseconds.                                *)
(***************************************************************************)
scrollDelay == 100

\* the step of the clock: half the delay of the timeout
tick == scrollDelay \div 2

\* the items of the picker and childCenter of each child of the container
items == <<"C", "D", "E">>

childCenters == <<0, 70, 140>>

\* the positions a scroll event can leave the container at
Positions == {0, 35, 60, 70, 140}

Abs(a) == IF a < 0 THEN -a ELSE a

\* the forEach over the children: the first child of least diff
closestItem(center) ==
    LET diff(index) == Abs(center - childCenters[index + 1])
        best == CHOOSE i \in 0..(Len(items) - 1) :
                    /\ \A j \in 0..(i - 1) : diff(j) > diff(i)
                    /\ \A j \in (i + 1)..(Len(items) - 1) : diff(j) >= diff(i)
    IN  items[best + 1]

\* offsetLeft + offsetWidth / 2 of the active item
itemCenter(item) ==
    childCenters[CHOOSE k \in 1..Len(items) : items[k] = item]

\* setTimeout returns an id no pending timeout of the picker has
freshId == IF scrollTimeout = null THEN 1 ELSE 3 - scrollTimeout[1]

\* if (scrollTimeout.current) clearTimeout(scrollTimeout.current)
cleared ==
    IF scrollTimeout # null
    THEN {t \in timeouts : t.id # scrollTimeout[1]}
    ELSE timeouts

(***************************************************************************)
(* Actions                                                                 *)
(***************************************************************************)
Init ==
    /\ rootVal = 0
    /\ intervals = <<>>
    /\ tuning = STANDARD_TUNING
    /\ capo = 0
    /\ bassNoteVal = <<>>
    /\ pc = "idle"
    /\ stack = <<>>
    /\ iterationCount = 0
    /\ rawShapes = <<>>
    /\ validChords = <<>>
    /\ toRemove = {}
    /\ removeIdx = 0
    /\ result = <<>>
    /\ calls = 0
    /\ history = <<>>
    /\ variations = ListOf(MaxVariations)
    /\ variationIndex = 0
    /\ resetPending = TRUE
    /\ stateRef = [variationIndex |-> 0, totalVariations |-> MaxVariations]
    /\ lastNav = null
    /\ timers = {}
    /\ played = <<>>
    /\ gesture = null
    /\ selectedItem = "C"
    /\ containerCenter = 0
    /\ scrollTimeout = null
    /\ timeouts = {}
    /\ sinceScroll = 0
    /\ burstCalls = 0
    /\ lastSelect = null

\* variant of Invoke: rawShapes outlives the invocation
InvokeSharedShapes(in) ==
    /\ rootVal' = in.rootVal
    /\ intervals' = in.intervals
    /\ tuning' = in.tuning
    /\ capo' = in.capo
    /\ bassNoteVal' = in.bassNoteVal
    /\ rawShapes' = rawShapes
    /\ iterationCount' = 0
    /\ stack' = <<startFrame>>
    /\ validChords' = <<>>
    /\ toRemove' = {}
    /\ removeIdx' = 0
    /\ result' = <<>>
    /\ pc' = "search"
    /\ calls' = calls + 1
    /\ UNCHANGED history
    /\ UNCHANGED uiVars

\* entry of generateChords with arguments in: the parameters are bound, the
\* locals rawShapes and iterationCount are created and search is started
Invoke(in) ==
    /\ rootVal' = in.rootVal
    /\ intervals' = in.intervals
    /\ tuning' = in.tuning
    /\ capo' = in.capo
    /\ bassNoteVal' = in.bassNoteVal
    /\ rawShapes' = <<>>
    /\ iterationCount' = 0
    /\ stack' = <<startFrame>>
    /\ validChords' = <<>>
    /\ toRemove' = {}
    /\ removeIdx' = 0
    /\ result' = <<>>
    /\ pc' = "search"
    /\ calls' = calls + 1
    /\ UNCHANGED history
    /\ UNCHANGED uiVars

\* a caller invokes generateChords once
Call ==
    /\ pc = "idle"
    /\ \E in \in Inputs : Invoke(in)

\* a caller invokes generateChords, possibly after earlier invocations
CallRepeat ==
    /\ pc \in {"idle", "done"}
    /\ calls < MaxCalls
    /\ \E in \in RepeatInputs : Invoke(in)

\* one call of search(): the head of stack is the call being entered.  The
\* candidate loop of the call reads nothing a recursive call writes, so the
\* calls it makes are pushed at once, in the order the loop makes them.
SearchStep ==
    /\ pc = "search"
    /\ stack # <<>>
    /\ LET fr == Head(stack)
       IN  /\ iterationCount' = iterationCount + 1
           /\ IF iterationCount + 1 > maxIterations
              THEN /\ stack' = Tail(stack)
                   /\ UNCHANGED rawShapes
              ELSE IF fr.stringIdx = numStrings
              THEN /\ stack' = Tail(stack)
                   /\ rawShapes' = IF fr.coveredMask = fullMask
                                   THEN Append(rawShapes, fr.currentShape)
                                   ELSE rawShapes
              ELSE IF NotesMissing(fr.coveredMask) > numStrings - fr.stringIdx
              THEN /\ stack' = Tail(stack)
                   /\ UNCHANGED rawShapes
              ELSE /\ stack' = Children(fr) \o Tail(stack)
                   /\ UNCHANGED rawShapes
    /\ UNCHANGED <<rootVal, intervals, tuning, capo, bassNoteVal, pc,
                   validChords, toRemove, removeIdx, result, calls, history>>
    /\ UNCHANGED uiVars

\* the outermost search() has returned: validChords = rawShapes and an
\* empty toRemove
BeginRemoval ==
    /\ pc = "search"
    /\ stack = <<>>
    /\ validChords' = rawShapes
    /\ toRemove' = {}
    /\ removeIdx' = 0
    /\ pc' = "remove"
    /\ UNCHANGED <<rootVal, intervals, tuning, capo, bassNoteVal, stack,
                   iterationCount, rawShapes, result, calls, history>>
    /\ UNCHANGED uiVars

\* one iteration of the loop over i of the subset removal
RemoveStep ==
    /\ pc = "remove"
    /\ removeIdx < Len(validChords)
    /\ toRemove' =
         IF /\ removeIdx \notin toRemove
            /\ subsetOfAnother(validChords, removeIdx, toRemove)
         THEN toRemove \cup {removeIdx}
         ELSE toRemove
    /\ removeIdx' = removeIdx + 1
    /\ UNCHANGED <<rootVal, intervals, tuning, capo, bassNoteVal, pc, stack,
                   iterationCount, rawShapes, validChords, result, calls,
                   history>>
    /\ UNCHANGED uiVars

\* the loop is over: the removed chords are filtered out
FilterRemoved ==
    /\ pc = "remove"
    /\ removeIdx >= Len(validChords)
    /\ validChords' = withoutRemoved(validChords, toRemove)
    /\ pc' = "sort"
    /\ UNCHANGED <<rootVal, intervals, tuning, capo, bassNoteVal, stack,
                   iterationCount, rawShapes, toRemove, removeIdx, result,
                   calls, history>>
    /\ UNCHANGED uiVars

Sort ==
    /\ pc = "sort"
    /\ validChords' = sortChords(validChords)
    /\ pc' = "map"
    /\ UNCHANGED <<rootVal, intervals, tuning, capo, bassNoteVal, stack,
                   iterationCount, rawShapes, toRemove, removeIdx, result,
                   calls, history>>
    /\ UNCHANGED uiVars

Return ==
    /\ pc = "map"
    /\ result' = [k \in 1..Len(validChords) |-> toVariation(validChords[k])]
    /\ history' = Append(history,
                         [args |-> args,
                          list |-> [k \in 1..Len(validChords) |->
                                      toVariation(validChords[k])]])
    /\ pc' = "done"
    /\ UNCHANGED <<rootVal, intervals, tuning, capo, bassNoteVal, stack,
                   iterationCount, rawShapes, validChords, toRemove,
                   removeIdx, calls>>
    /\ UNCHANGED uiVars

Next ==
    \/ Call
    \/ SearchStep
    \/ BeginRemoval
    \/ RemoveStep
    \/ FilterRemoved
    \/ Sort
    \/ Return

Spec == Init /\ [][Next]_vars

NextRepeat ==
    \/ CallRepeat
    \/ SearchStep
    \/ BeginRemoval
    \/ RemoveStep
    \/ FilterRemoved
    \/ Sort
    \/ Return

SpecRepeat == Init /\ [][NextRepeat]_vars

\* the application invokes generateChords once
CallApp ==
    /\ pc = "idle"
    /\ \E in \in AppInputs : Invoke(in)

NextApp ==
    \/ CallApp
    \/ SearchStep
    \/ BeginRemoval
    \/ RemoveStep
    \/ FilterRemoved
    \/ Sort
    \/ Return

SpecApp == Init /\ [][NextApp]_vars

\* a caller invokes generateChords with a capo
CallCapo ==
    /\ pc = "idle"
    /\ \E in \in CapoInputs : Invoke(in)

\* the caller then invokes it without the capo, on the raised tuning
CallShifted ==
    /\ pc = "done"
    /\ Len(history) = 1
    /\ Invoke(Shifted(history[1].args))

NextCapo ==
    \/ CallCapo
    \/ CallShifted
    \/ SearchStep
    \/ BeginRemoval
    \/ RemoveStep
    \/ FilterRemoved
    \/ Sort
    \/ Return

SpecCapo == Init /\ [][NextCapo]_vars

\* a caller invokes generateChords once, with arguments of DyadInputs
CallDyad ==
    /\ pc = "idle"
    /\ \E in \in DyadInputs : Invoke(in)

NextDyad ==
    \/ CallDyad
    \/ SearchStep
    \/ BeginRemoval
    \/ RemoveStep
    \/ FilterRemoved
    \/ Sort
    \/ Return

SpecDyad == Init /\ [][NextDyad]_vars

\* a caller invokes generateChords once, with arguments of SearchInputs
CallSearch ==
    /\ pc = "idle"
    /\ \E in \in SearchInputs : Invoke(in)

NextSearch ==
    \/ CallSearch
    \/ SearchStep
    \/ BeginRemoval
    \/ RemoveStep
    \/ FilterRemoved
    \/ Sort
    \/ Return

SpecSearch == Init /\ [][NextSearch]_vars

(***************************************************************************)
(* The selected variation (App) and its navigation (Fretboard, Controls)   *)
(***************************************************************************)
\* setRoot, setQuality, setBass, setTuning or setCapo has run and App has
\* rendered again: the memo holds the new list (of n voicings), and the
\* effect that resets variationIndex is pending
ChangeParameter ==
    /\ \E n \in 0..MaxVariations : variations' = ListOf(n)
    /\ resetPending' = TRUE
    /\ UNCHANGED <<variationIndex, stateRef, lastNav>>
    /\ UNCHANGED <<engineVars, audioVars, pickerVars>>

\* variant of FlushEffects: the reset effect does not set the index
FlushEffectsNoReset ==
    /\ resetPending \/ stateRef # Rendered
    /\ stateRef' = Rendered
    /\ resetPending' = FALSE
    /\ UNCHANGED <<variations, variationIndex, lastNav>>
    /\ UNCHANGED <<engineVars, audioVars, pickerVars>>

\* the effects of the render on screen run, the child's before the
\* parent's: Fretboard refreshes stateRef.current, then App's pending
\* effect calls setVariationIndex(0)
FlushEffects ==
    /\ resetPending \/ stateRef # Rendered
    /\ stateRef' = Rendered
    /\ variationIndex' = IF resetPending THEN 0 ELSE variationIndex
    /\ resetPending' = FALSE
    /\ UNCHANGED <<variations, lastNav>>
    /\ UNCHANGED <<engineVars, audioVars, pickerVars>>

\* a navigation handler that read index i and count total calls
\* onVariationChange, which is setVariationIndex
Navigate(kind, i, total) ==
    LET to == IF kind = "next" THEN nextIndex(i, total)
                               ELSE prevIndex(i, total)
    IN  /\ variationIndex' = to
        /\ lastNav' = <<[kind |-> kind, from |-> i, total |-> total,
                         to |-> to]>>
        /\ UNCHANGED <<variations, resetPending, stateRef>>
        /\ UNCHANGED <<engineVars, audioVars, pickerVars>>

\* the arrows are rendered when totalVariations > 1 and read the props of
\* the render on screen
ArrowNext ==
    /\ Len(variations) > 1
    /\ Navigate("next", variationIndex, Len(variations))

ArrowPrevious ==
    /\ Len(variations) > 1
    /\ Navigate("previous", variationIndex, Len(variations))

\* onTouchEnd after a horizontal swipe to the left (dx < 0): it reads
\* stateRef.current and returns when totalVariations <= 1
SwipeLeft ==
    /\ ~(stateRef.totalVariations <= 1)
    /\ Navigate("next", stateRef.variationIndex, stateRef.totalVariations)

\* onTouchEnd after a horizontal swipe to the right
SwipeRight ==
    /\ ~(stateRef.totalVariations <= 1)
    /\ Navigate("previous", stateRef.variationIndex,
                stateRef.totalVariations)

\* a click on entry idx of the list of variations Controls renders
SelectVariation ==
    /\ \E idx \in 0..(Len(variations) - 1) :
         /\ variationIndex' = idx
         /\ lastNav' = <<[kind |-> "select", from |-> variationIndex,
                          total |-> Len(variations), to |-> idx]>>
    /\ UNCHANGED <<variations, resetPending, stateRef>>
    /\ UNCHANGED <<engineVars, audioVars, pickerVars>>

NextNav ==
    \/ ChangeParameter
    \/ FlushEffects
    \/ ArrowNext
    \/ ArrowPrevious
    \/ SwipeLeft
    \/ SwipeRight
    \/ SelectVariation

SpecNav == Init /\ [][NextNav]_vars

(***************************************************************************)
(* Audio: the requests of Fretboard and the timeouts of playChord          *)
(***************************************************************************)
\* a click that calls playNote(stringIdx, fret, tuning.offsets, capo)
ClickNote ==
    /\ timers = {}
    /\ \E stringIdx \in 0..5, fret \in NoteFrets, t \in AudioTunings,
          c \in AudioCapos :
         /\ gesture' = <<[kind |-> "note", stringIdx |-> stringIdx,
                          fret |-> fret, tuningOffsets |-> t, capo |-> c]>>
         /\ played' = playNote(<<>>, stringIdx, fret, t, c)
    /\ UNCHANGED timers
    /\ UNCHANGED <<engineVars, navVars, pickerVars>>

\* a click that calls playChord(variation.frets, tuning.offsets, capo), no
\* timeout of an earlier chord being pending
PlayChord ==
    /\ timers = {}
    /\ \E frets \in ChordShapes, t \in AudioTunings, c \in AudioCapos :
         /\ gesture' = <<[kind |-> "chord", frets |-> frets,
                          tuningOffsets |-> t, capo |-> c]>>
         /\ timers' = chordTimers(frets, t, c)
    /\ played' = <<>>
    /\ UNCHANGED <<engineVars, navVars, pickerVars>>

\* the pending timeout with the least delay fires and calls playNote
NoteTimeout ==
    /\ \E t \in timers :
         /\ \A u \in timers : t.delay <= u.delay
         /\ timers' = timers \ {t}
         /\ played' = playNote(played, t.stringIdx, t.fret, t.tuningOffsets,
                               t.capo)
    /\ UNCHANGED gesture
    /\ UNCHANGED <<engineVars, navVars, pickerVars>>

NextAudio ==
    \/ ClickNote
    \/ PlayChord
    \/ NoteTimeout

SpecAudio == Init /\ [][NextAudio]_vars

(***************************************************************************)
(* The scroll picker: scroll events, its timeout, the selection            *)
(***************************************************************************)
\* handleScroll for a scroll event that leaves the container at center, in
\* the render whose selected item is current: the timeout of the previous
\* event is cleared and a new one is set, whose callback keeps current
handleScroll(center, current) ==
    /\ containerCenter' = center
    /\ timeouts' = cleared \cup {[id |-> freshId, currentItem |-> current,
                                  due |-> scrollDelay]}
    /\ scrollTimeout' = <<freshId>>
    /\ sinceScroll' = 0
    /\ burstCalls' = 0

\* the effect that centres the active item after the selection became
\* item: it returns when the item is centred, else it scrolls the item to
\* the centre, which the container reports as a scroll event
centerActiveItem(item) ==
    IF Abs(containerCenter - itemCenter(item)) < 10
    THEN UNCHANGED <<containerCenter, timeouts, scrollTimeout, sinceScroll,
                     burstCalls>>
    ELSE handleScroll(itemCenter(item), item)

\* the user scrolls the picker
ScrollEvent ==
    /\ \E center \in Positions : handleScroll(center, selectedItem)
    /\ UNCHANGED <<selectedItem, lastSelect>>
    /\ UNCHANGED <<engineVars, navVars, audioVars>>

\* the parent changes the selected item without a scroll of this picker: a
\* click on the item's button (Controls), setBass(root) (App)
SelectItem ==
    /\ \E k \in 1..Len(items) :
         /\ items[k] # selectedItem
         /\ selectedItem' = items[k]
         /\ centerActiveItem(items[k])
    /\ UNCHANGED lastSelect
    /\ UNCHANGED <<engineVars, navVars, audioVars>>

\* time passes; a timeout that is due fires first
Tick ==
    /\ \A t \in timeouts : t.due > 0
    /\ timeouts # {} \/ sinceScroll <= scrollDelay
    /\ timeouts' = {[t EXCEPT !.due = @ - tick] : t \in timeouts}
    /\ sinceScroll' = Min2(sinceScroll + tick, scrollDelay + tick)
    /\ UNCHANGED <<selectedItem, containerCenter, scrollTimeout, burstCalls,
                   lastSelect>>
    /\ UNCHANGED <<engineVars, navVars, audioVars>>

\* the callback of a timeout runs: it calls onSelect(closestItem) when
\* the key of closestItem differs from the key of the selected item the
\* callback keeps; a new selection runs the centring effect
ScrollTimeout ==
    \E t \in timeouts :
        /\ t.due = 0
        /\ LET closest == closestItem(containerCenter)
           IN  IF closest # t.currentItem
               THEN /\ selectedItem' = closest
                    /\ lastSelect' = <<[item |-> closest,
                                        currentItem |-> t.currentItem,
                                        selected |-> selectedItem,
                                        sinceScroll |-> sinceScroll,
                                        calls |-> burstCalls + 1]>>
                    /\ IF closest # selectedItem
                          /\ Abs(containerCenter - itemCenter(closest)) >= 10
                       THEN /\ containerCenter' = itemCenter(closest)
                            /\ timeouts' =
                                 (cleared \ {t})
                                   \cup {[id |-> freshId,
                                          currentItem |-> closest,
                                          due |-> scrollDelay]}
                            /\ scrollTimeout' = <<freshId>>
                            /\ sinceScroll' = 0
                            /\ burstCalls' = 0
                       ELSE /\ timeouts' = timeouts \ {t}
                            /\ burstCalls' = burstCalls + 1
                            /\ UNCHANGED <<containerCenter, scrollTimeout,
                                           sinceScroll>>
               ELSE /\ timeouts' = timeouts \ {t}
                    /\ UNCHANGED <<selectedItem, containerCenter,
                                   scrollTimeout, sinceScroll, burstCalls,
                                   lastSelect>>
        /\ UNCHANGED <<engineVars, navVars, audioVars>>

NextPicker ==
    \/ ScrollEvent
    \/ SelectItem
    \/ Tick
    \/ ScrollTimeout

SpecPicker == Init /\ [][NextPicker]_vars

(***************************************************************************)
(* Properties                                                              *)
(***************************************************************************)
\* the preconditions of the interface on the arguments of the invocation
ValidArgs ==
    /\ rootVal \in 0..11
    /\ \A k \in 1..Len(intervals) : intervals[k] \in 0..11
    /\ \A k \in 1..Len(bassNoteVal) : bassNoteVal[k] \in 0..11
    /\ Len(tuning) = 6
    /\ capo \in 0..22

Returned == pc = "done"

\* pitch classes sounded by the non-muted strings of a voicing
SoundedClasses(frets) ==
    {(tuning[s] + capo + frets[s]) % 12 : s \in {x \in 1..6 : frets[x] # -1}}

\* target pitch classes: the chord tones and the supplied bass
TargetClasses ==
    {(rootVal + intervals[k]) % 12 : k \in 1..Len(intervals)}
    \cup {bassNoteVal[k] % 12 : k \in 1..Len(bassNoteVal)}

\* C1: every returned voicing sounds every target pitch class (root +
\* interval) mod 12 and, when a bass is supplied, the bass pitch class.
C1_Coverage ==
    (Returned /\ ValidArgs) =>
        \A k \in 1..Len(result) : TargetClasses \subseteq SoundedClasses(result[k].frets)

\* a slash chord under a capo has returned voicings
C1_Witness ==
    /\ Returned /\ ValidArgs
    /\ bassNoteVal = <<4>> /\ rootVal = 0 /\ capo = 2
    /\ Len(intervals) = 3
    /\ Len(result) > 0

\* lowest-index non-muted string of a voicing (0 when all are muted)
FirstSoundingString(frets) ==
    IF \A s \in 1..6 : frets[s] = -1 THEN 0
    ELSE CHOOSE s \in 1..6 :
            frets[s] # -1 /\ \A r \in 1..(s - 1) : frets[r] = -1

\* C2: in every returned voicing the lowest-index non-muted string sounds
\* the effective bass pitch class: the supplied bass, otherwise the root.
C2_BassFirst ==
    (Returned /\ ValidArgs) =>
        \A k \in 1..Len(result) :
            LET s == FirstSoundingString(result[k].frets)
            IN  s # 0 =>
                  (tuning[s] + capo + result[k].frets[s]) % 12
                    = (IF bassNoteVal # <<>> THEN bassNoteVal[1] ELSE rootVal)

\* C/E is returned with a voicing whose lowest string is muted
C2_Witness ==
    /\ Returned /\ ValidArgs
    /\ rootVal = 0 /\ intervals = <<0, 4, 7>> /\ bassNoteVal = <<4>>
    /\ \E k \in 1..Len(result) : FirstSoundingString(result[k].frets) > 1

\* B dominates A: B agrees with A on every string A sounds and sounds more
Dominates(B, A) ==
    /\ \A s \in 1..6 : A[s] = -1 \/ A[s] = B[s]
    /\ \E s \in 1..6 : A[s] = -1 /\ B[s] # -1

\* C3: no returned voicing is dominated by another returned voicing.
C3_NonDomination ==
    Returned =>
        \A i, j \in 1..Len(result) :
            i # j => ~Dominates(result[j].frets, result[i].frets)

\* the subset removal removed something and left several voicings
C3_Witness ==
    /\ Returned
    /\ Len(result) >= 2
    /\ Len(rawShapes) > Len(result)

SoundingCount(frets) == Cardinality({s \in 1..6 : frets[s] # -1})

\* C4: every returned voicing has at least 2 sounding strings when the
\* chord has exactly 2 target intervals, and at least 3 sounding strings
\* for every other interval set.
C4_MinDensity ==
    (Returned /\ ValidArgs) =>
        \A k \in 1..Len(result) :
            SoundingCount(result[k].frets)
              >= (IF Len(intervals) = 2 THEN 2 ELSE 3)

ScenarioA ==
    /\ rootVal = 0
    /\ intervals = <<0, 4, 7>>
    /\ tuning = <<4, 9, 2, 7, 11, 4>>
    /\ capo = 0
    /\ bassNoteVal = <<>>

\* C5: for C major in standard tuning, no capo and no bass, the first
\* element of the returned list has frets [-1,3,2,0,1,0] and shape label C.
C5_ScenarioA ==
    (Returned /\ ScenarioA) =>
        /\ Len(result) >= 1
        /\ result[1].frets = <<-1, 3, 2, 0, 1, 0>>
        /\ result[1].cagedShape = <<"C">>

\* scenario A has been run to its end, with several voicings to rank
C5_Witness == Returned /\ ScenarioA /\ Len(result) >= 2

\* the letter of the root's name, accidental dropped
PlainLetters ==
    <<"C", "C", "D", "D", "E", "F", "F", "G", "G", "A", "A", "B">>

FrettedValues(frets) == {frets[s] : s \in {x \in 1..6 : frets[x] > 0}}

LeastOf(S) == CHOOSE m \in S : \A x \in S : m <= x
GreatestOf(S) == CHOOSE m \in S : \A x \in S : x <= m

\* mutes strictly between the first and the last sounding string
InnerMutes(frets) ==
    LET snd == {s \in 1..6 : frets[s] # -1}
    IN  IF snd = {} THEN 0
        ELSE Cardinality({s \in LeastOf(snd)..GreatestOf(snd) : frets[s] = -1})

\* the seven ranking keys of a returned voicing, smaller is better
RankKey(v) ==
    << IF v.cagedShape = <<PlainLetters[(rootVal % 12) + 1]>> THEN 0 ELSE 1,
       Cardinality({s \in 1..6 : v.frets[s] > 0}),
       IF FrettedValues(v.frets) = {} THEN 0 ELSE LeastOf(FrettedValues(v.frets)),
       IF FrettedValues(v.frets) = {} THEN 0
       ELSE GreatestOf(FrettedValues(v.frets)) - LeastOf(FrettedValues(v.frets)),
       0 - getCAGEDScore(v.frets, rootVal, nutTuning),
       0 - SoundingCount(v.frets),
       InnerMutes(v.frets) >>

\* a is not worse than b, keys compared lexicographically
LexLeq(a, b) ==
    \/ a = b
    \/ \E p \in 1..7 : a[p] < b[p] /\ \A q \in 1..(p - 1) : a[q] = b[q]

\* C6: the returned list is ordered best-first by the seven keys compared
\* lexicographically: for positions i < j the voicing at i is not worse
\* than the one at j.
C6_Ranked ==
    (Returned /\ ValidArgs) =>
        \A i, j \in 1..Len(result) :
            i < j => LexLeq(RankKey(result[i]), RankKey(result[j]))

\* a list is returned in which the first key and a late key both decide
C6_Witness ==
    /\ Returned /\ ValidArgs
    /\ \E i, j \in 1..Len(result) :
          RankKey(result[i])[1] = 0 /\ RankKey(result[j])[1] = 1
    /\ \E i, j \in 1..Len(result) :
          /\ \A q \in 1..4 : RankKey(result[i])[q] = RankKey(result[j])[q]
          /\ RankKey(result[i])[5] < RankKey(result[j])[5]

\* C7: every fret value in every returned voicing is -1, 0, or an integer
\* between 1 and 22 - capo inclusive and never above 15, for every capo in
\* 0..22.
C7_FretRange ==
    (Returned /\ ValidArgs) =>
        \A k \in 1..Len(result) : \A s \in 1..6 :
            LET f == result[k].frets[s]
            IN  \/ f = -1
                \/ f = 0
                \/ (1 <= f /\ f <= 22 - capo /\ f <= 15)

\* a voicing reaches the last fret of the neck under a high capo
C7_Witness ==
    /\ Returned /\ ValidArgs
    /\ capo >= 8
    /\ \E k \in 1..Len(result) : \E s \in 1..6 : result[k].frets[s] = 22 - capo

\* C9: an invocation with an invalid input fails with a validation error
\* instead of returning a list of voicings.
C9_InvalidRejected == Returned => ValidArgs

\* C10: two invocations with identical arguments return identical ordered
\* lists, whatever invocations ran before or between them.
C10_Deterministic ==
    \A i, j \in 1..Len(history) :
        history[i].args = history[j].args => history[i].list = history[j].list

\* the same arguments were used twice with another invocation in between
C10_Witness ==
    \E i, m, j \in 1..Len(history) :
        /\ i < m /\ m < j
        /\ history[i].args = history[j].args
        /\ history[m].args # history[i].args
        /\ Len(history[i].list) > 0

\* C11: the root pitch class is always one of the target pitch classes, so
\* a call whose interval list omits 0 still searches for voicings that
\* cover the root together with the listed intervals.
C11_RootIsTarget ==
    (Returned /\ ValidArgs) => Has(targetNotesList, Mod12(rootVal))

\* the lowest fretted value of a voicing, 0 when nothing is fretted
LowestFretted(frets) ==
    IF FrettedValues(frets) = {} THEN 0 ELSE LeastOf(FrettedValues(frets))

\* C13: every returned voicing carries baseFret equal to its minimum
\* fretted value when that minimum exceeds 2, and equal to 1 otherwise.
C13_BaseFret ==
    Returned =>
        \A k \in 1..Len(result) :
            result[k].baseFret =
                IF LowestFretted(result[k].frets) > 2
                THEN LowestFretted(result[k].frets)
                ELSE 1

\* a returned list with a voicing fretted from 1, one fretted from 2 and
\* one fretted from 3
C13_Witness ==
    /\ Returned /\ ValidArgs
    /\ \E i, j, k \in 1..Len(result) :
          /\ LowestFretted(result[i].frets) = 2
          /\ LowestFretted(result[j].frets) = 3
          /\ LowestFretted(result[k].frets) = 1

\* the candidate frets of string s (1-based), as a set
CandidateSet(s) == {validFrets(s - 1)[k] : k \in 1..Len(validFrets(s - 1))}

\* the rules of the search applied to a complete assignment a: fretted
\* span, open/fretted compatibility, finger budget, bass placement, coverage
WholeOk(a) ==
    LET F == FrettedValues(a)
        first == FirstSoundingString(a)
    IN  /\ F # {} => GreatestOf(F) - LeastOf(F) <= 3
        /\ F # {} => ~((\E s \in 1..6 : a[s] = 0) /\ GreatestOf(F) > 4)
        /\ F # {} => Cardinality({s \in 1..6 : a[s] > LeastOf(F)}) <= 3
        /\ first # 0 =>
              (tuning[first] + capo + a[first]) % 12
                = (IF bassNoteVal # <<>> THEN bassNoteVal[1] ELSE rootVal)
        /\ TargetClasses \subseteq SoundedClasses(a)

\* the shapes accepted by the search, as a set
AcceptedSet == {rawShapes[k] : k \in 1..Len(rawShapes)}

\* C14: when the iteration cap is not reached, the voicings accepted by the
\* pruned search are exactly the complete assignments drawn from the
\* candidate lists that satisfy every rule as a whole.
C14_SearchExhaustive ==
    (Returned /\ ValidArgs /\ iterationCount <= maxIterations) =>
        /\ \A a \in AcceptedSet :
              WholeOk(a) /\ \A s \in 1..6 : a[s] \in CandidateSet(s)
        /\ LET cand == ArrayOf([s \in 1..6 |-> CandidateSet(s)])
           IN  \A f1 \in cand[1] : \A f2 \in cand[2] : \A f3 \in cand[3] :
               \A f4 \in cand[4] : \A f5 \in cand[5] : \A f6 \in cand[6] :
                  WholeOk(<<f1, f2, f3, f4, f5, f6>>)
                    => <<f1, f2, f3, f4, f5, f6>> \in AcceptedSet

\* the search pruned a branch by the coverage cut and by each rule, and
\* accepted voicings with open and fretted strings
C14_Witness ==
    /\ Returned /\ ValidArgs /\ capo = 0
    /\ Len(targetNotesList) = 3
    /\ Len(rawShapes) > 50
    /\ \E a \in AcceptedSet :
          /\ \E s \in 1..6 : a[s] = 0
          /\ \E s \in 1..6 : a[s] > 0
          /\ a[1] = -1

\* highest minus lowest fretted value of a voicing, 0 when nothing is fretted
FrettedSpan(frets) ==
    IF FrettedValues(frets) = {} THEN 0
    ELSE GreatestOf(FrettedValues(frets)) - LeastOf(FrettedValues(frets))

\* C15: in every returned voicing the difference between the highest and
\* the lowest fretted value is at most 3.
C15_SpanAtMostThree ==
    Returned => \A k \in 1..Len(result) : FrettedSpan(result[k].frets) <= 3

\* a returned voicing fills the box of four frets
C15_Witness ==
    /\ Returned /\ ValidArgs
    /\ \E k \in 1..Len(result) : FrettedSpan(result[k].frets) = 3

HasOpenString(frets) == \E s \in 1..6 : frets[s] = 0

\* C16: no returned voicing combines an open string with a fretted value
\* above 4, whichever of the two comes first in string order.
C16_OpenWithLowFrets ==
    Returned =>
        \A k \in 1..Len(result) :
            HasOpenString(result[k].frets) =>
                \A x \in FrettedValues(result[k].frets) : x <= 4

\* returned voicings hold fret 4 beside an open string, with the open
\* string before the fretted one and after it
C16_Witness ==
    /\ Returned /\ ValidArgs
    /\ \E k \in 1..Len(result) : \E s, r \in 1..6 :
          s < r /\ result[k].frets[s] = 0 /\ result[k].frets[r] = 4
    /\ \E k \in 1..Len(result) : \E s, r \in 1..6 :
          s < r /\ result[k].frets[s] = 4 /\ result[k].frets[r] = 0

\* strings fretted strictly above the lowest fretted value
AboveLowest(frets) ==
    Cardinality({s \in 1..6 : frets[s] > LowestFretted(frets)
                              /\ LowestFretted(frets) > 0})

\* strings fretted at the lowest fretted value
AtLowest(frets) ==
    Cardinality({s \in 1..6 : frets[s] > 0 /\ frets[s] = LowestFretted(frets)})

\* C17: in every returned voicing at most 3 fretted notes lie strictly
\* above the minimum fretted value; a voicing without a barre (at most one
\* string at the minimum) has at most 4 fretted notes in total.
C17_FingerBudget ==
    Returned =>
        \A k \in 1..Len(result) :
            /\ AboveLowest(result[k].frets) <= 3
            /\ AtLowest(result[k].frets) <= 1 =>
                  Cardinality({s \in 1..6 : result[k].frets[s] > 0}) <= 4

\* returned voicings use the whole budget: a barre with 3 notes above it,
\* and 4 fretted notes without a barre
C17_Witness ==
    /\ Returned /\ ValidArgs
    /\ \E k \in 1..Len(result) :
          AboveLowest(result[k].frets) = 3 /\ AtLowest(result[k].frets) >= 2
    /\ \E k \in 1..Len(result) :
          AboveLowest(result[k].frets) = 3 /\ AtLowest(result[k].frets) = 1

\* the shapes of the returned voicings, as a set
OutputSet == {result[k].frets : k \in 1..Len(result)}

\* C20: a voicing accepted by the search is absent from the output if and
\* only if some voicing present in the output agrees with it on all its
\* sounded strings and sounds at least one more string.
C20_OnlyDominatedRemoved ==
    Returned =>
        /\ OutputSet \subseteq AcceptedSet
        /\ \A a \in AcceptedSet :
              a \notin OutputSet <=> \E b \in OutputSet : Dominates(b, a)

\* a voicing was removed whose dominator was removed as well
C20_Witness ==
    /\ Returned /\ ValidArgs
    /\ \E a, b \in AcceptedSet \ OutputSet : Dominates(b, a)

CapoedIntervals ==
    [i \in 1..5 |-> ((tuning[i + 1] + capo) - (tuning[i] + capo) + 120) % 12]

StandardIntervals == <<5, 5, 5, 4, 5>>

\* C21: when the adjacent-string intervals of the capo'd tuning differ from
\* (5,5,5,4,5) no returned voicing has a shape label and every fuzzy shape
\* score is 0; when they equal it the classifier applies under every capo.
C21_ClassifierGate ==
    (Returned /\ ValidArgs) =>
        /\ CapoedIntervals # StandardIntervals =>
              \A k \in 1..Len(result) :
                  /\ result[k].cagedShape = undefined
                  /\ getCAGEDScore(result[k].frets, rootVal, nutTuning) = 0
        /\ CapoedIntervals = StandardIntervals => isStandard(nutTuning)

\* under a capo, a tuning with other intervals returned a voicing that has
\* three strings on the frets of a pattern
C21_Witness ==
    /\ Returned /\ ValidArgs
    /\ CapoedIntervals # StandardIntervals
    /\ capo > 0
    /\ \E k \in 1..Len(result) :
          QualifyingScores(result[k].frets, rootVal, nutTuning) # {}

\* the order in which the patterns are tried
LabelOrder == << <<"E">>, <<"G">>, <<"A">>, <<"C">>, <<"D">> >>

PatternNamed(n) ==
    CHOOSE p \in {CAGED_PATTERNS[k] : k \in 1..Len(CAGED_PATTERNS)} : p.name = n

\* voicing frets fits pattern p: the anchor string is sounded and sounds the
\* root, strings with an offset are at anchor fret + offset, the others are
\* muted
Fits(frets, p) ==
    LET a == p.anchorString + 1
    IN  /\ frets[a] # -1
        /\ (tuning[a] + capo + frets[a]) % 12 = rootVal
        /\ \A s \in 1..6 :
              IF p.offsets[s] = <<>> THEN frets[s] = -1
              ELSE frets[s] = frets[a] + p.offsets[s][1]

\* the name of the first pattern of LabelOrder the voicing fits
ReferenceLabel(frets) ==
    LET fitting == {i \in 1..5 : Fits(frets, PatternNamed(LabelOrder[i]))}
    IN  IF fitting = {} THEN undefined ELSE LabelOrder[LeastOf(fitting)]

\* C22: under the standard interval pattern a voicing's shape label is the
\* name of the first pattern in the order E, G, A, C, D that it fits, and
\* a voicing fitting no pattern has no label.
C22_ShapeLabel ==
    (Returned /\ ValidArgs /\ CapoedIntervals = StandardIntervals) =>
        \A k \in 1..Len(result) :
            result[k].cagedShape = ReferenceLabel(result[k].frets)

\* a returned list carries all five labels and an unlabelled voicing
C22_Witness ==
    /\ Returned /\ ValidArgs /\ CapoedIntervals = StandardIntervals
    /\ \A i \in 1..5 : \E k \in 1..Len(result) :
          result[k].cagedShape = LabelOrder[i]
    /\ \E k \in 1..Len(result) : result[k].cagedShape = undefined

\* strings on which pattern p expects a fret and the voicing has it
MatchedStrings(frets, p) ==
    {s \in 1..6 : /\ p.offsets[s] # <<>>
                  /\ frets[s] = frets[p.anchorString + 1] + p.offsets[s][1]}

\* strings on which pattern p expects a fret and the voicing sounds another
DeviatingStrings(frets, p) ==
    {s \in 1..6 : /\ p.offsets[s] # <<>>
                  /\ frets[s] # -1
                  /\ s \notin MatchedStrings(frets, p)}

\* the patterns anchored at a string that sounds the root, with at least 3
\* exact matches
QualifyingPatterns(frets) ==
    {p \in {CAGED_PATTERNS[k] : k \in 1..Len(CAGED_PATTERNS)} :
        /\ frets[p.anchorString + 1] # -1
        /\ (tuning[p.anchorString + 1] + capo + frets[p.anchorString + 1]) % 12
             = rootVal
        /\ Cardinality(MatchedStrings(frets, p)) >= 3}

ReferenceScore(frets) ==
    LET scores == {2 * Cardinality(MatchedStrings(frets, p))
                     - Cardinality(DeviatingStrings(frets, p)) :
                   p \in QualifyingPatterns(frets)}
    IN  IF scores = {} THEN 0 ELSE GreatestOf(scores)

\* C23: the fuzzy shape score of a voicing is the maximum, over the strings
\* sounding the root and the patterns anchored there with at least 3 exact
\* matches, of +2 per string on its expected fret and -1 per string that
\* sounds another fret than the expected one; it is 0 when none qualifies.
C23_FuzzyScore ==
    (Returned /\ ValidArgs /\ CapoedIntervals = StandardIntervals) =>
        \A k \in 1..Len(result) :
            getCAGEDScore(result[k].frets, rootVal, nutTuning)
              = ReferenceScore(result[k].frets)

\* a returned list has an unlabelled voicing scored with a penalty and a
\* voicing no pattern qualifies for
C23_Witness ==
    /\ Returned /\ ValidArgs /\ CapoedIntervals = StandardIntervals
    /\ \E k \in 1..Len(result) :
          /\ result[k].cagedShape = undefined
          /\ ReferenceScore(result[k].frets) > 0
          /\ \E p \in QualifyingPatterns(result[k].frets) :
                DeviatingStrings(result[k].frets, p) # {}
    /\ \E k \in 1..Len(result) : QualifyingPatterns(result[k].frets) = {}

\* C24: for a capo c <= 7, generateChords(root, intervals, tuning, c, bass)
\* returns exactly the list that generateChords(root, intervals,
\* [t + c for each t in tuning], 0, bass) returns.
C24_CapoIsTransposition ==
    \A i, j \in 1..Len(history) :
        (history[i].args.capo <= 7 /\ history[j].args = Shifted(history[i].args))
            => history[j].list = history[i].list

\* both calls returned, for capo 7, with a voicing on the last searched fret
C24_Witness ==
    /\ Len(history) = 2
    /\ history[1].args.capo = 7
    /\ history[2].args.capo = 0
    /\ history[2].args.tuning # history[1].args.tuning
    /\ \E k \in 1..Len(history[1].list) : \E s \in 1..6 :
          history[1].list[k].frets[s] = 15

\* C25: every note sounded by a returned voicing is a target pitch class,
\* so the pitch classes a returned voicing sounds are exactly the target
\* set, never a strict superset.
C25_OnlyTargetsSound ==
    (Returned /\ ValidArgs) =>
        \A k \in 1..Len(result) :
            /\ \A s \in 1..6 :
                  result[k].frets[s] # -1 =>
                    (tuning[s] + capo + result[k].frets[s]) % 12 \in TargetClasses
            /\ SoundedClasses(result[k].frets) = TargetClasses

\* a returned voicing of a two-note chord sounds five strings or more and
\* mutes a string whose open note is no target
C25_Witness ==
    /\ Returned /\ ValidArgs
    /\ Cardinality(TargetClasses) = 2
    /\ \E k \in 1..Len(result) :
          /\ SoundingCount(result[k].frets) >= 5
          /\ \E s \in 1..6 :
                /\ result[k].frets[s] = -1
                /\ (tuning[s] + capo) % 12 \notin TargetClasses

\* C26: a returned voicing that carries a shape label sounds every string
\* for which the pattern of that label defines an offset.
C26_LabelSoundsPattern ==
    (Returned /\ ValidArgs) =>
        \A k \in 1..Len(result) :
            result[k].cagedShape # undefined =>
                \A s \in 1..6 :
                    PatternNamed(result[k].cagedShape).offsets[s] # <<>>
                        => result[k].frets[s] # -1

\* C27: after a change of root, quality, bass, tuning or capo, the step in
\* which the pending reset effect runs leaves variationIndex = 0; whenever
\* no reset is pending, 0 <= variationIndex < max(1, number of variations)
\* and the displayed variation is variations[variationIndex], or null when
\* the list is empty.
C27_IndexReset ==
    /\ [](~resetPending =>
            /\ 0 <= variationIndex
            /\ variationIndex < MaxOf(<<1, Len(variations)>>)
            /\ currentVariation =
                 IF variations = <<>> THEN null
                 ELSE <<variations[variationIndex + 1]>>)
    /\ [][resetPending /\ ~resetPending' => variationIndex' = 0]_vars

\* a navigation selected an index above 0, the parameters then changed to a
\* chord with no voicing, and the reset has run
C27_Witness ==
    /\ ~resetPending
    /\ lastNav # null
    /\ lastNav[1].to > 0
    /\ variationIndex = 0
    /\ variations = <<>>
    /\ currentVariation = null

\* C28: a navigation by arrow or swipe happens only with more than one
\* variation; the index it selects lies in 0..total-1 and is congruent
\* modulo total to the index it read plus one (next) or minus one
\* (previous), also when the index it read is not below total.
C28_CyclicNavigation ==
    lastNav # null /\ lastNav[1].kind \in {"next", "previous"} =>
        LET n == lastNav[1]
            step == IF n.kind = "next" THEN 1 ELSE -1
        IN  /\ n.total > 1
            /\ n.to \in 0..(n.total - 1)
            /\ \E k \in -1..(MaxVariations + 1) :
                 n.to + k * n.total = n.from + step

\* "next" was pressed while the index on screen was stale: it was not below
\* the number of variations
C28_Witness ==
    /\ lastNav # null
    /\ lastNav[1].kind = "next"
    /\ lastNav[1].from >= lastNav[1].total
    /\ variationIndex = lastNav[1].to

\* the strings of the notes in log, in the order they were started
StringsOf(log) == [k \in 1..Len(log) |-> log[k].stringIdx]

\* C29: every note playNote starts has a fret >= 0 and a MIDI note congruent
\* modulo 12 to tuningOffsets[string] + capo + fret; a request with fret -1
\* starts nothing; after playChord the notes started and the timeouts still
\* pending are exactly one per non-muted string of the chord, none for a
\* muted one, and the notes start in ascending string order.
C29_PitchAgrees ==
    /\ \A k \in 1..Len(played) :
         LET n == played[k]
         IN  /\ n.fret >= 0
             /\ (n.midiNote - (n.tuningOffsets[n.stringIdx + 1] + n.capo
                                 + n.fret)) % 12 = 0
    /\ gesture # null =>
         LET g == gesture[1]
         IN  IF g.kind = "note"
             THEN IF g.fret = -1 THEN played = <<>>
                  ELSE /\ Len(played) = 1
                       /\ played[1].stringIdx = g.stringIdx
                       /\ played[1].fret = g.fret
             ELSE LET strs == StringsOf(played)
                      waiting == {t.stringIdx : t \in timers}
                  IN  /\ \A k \in 1..(Len(strs) - 1) : strs[k] < strs[k + 1]
                      /\ \A k \in 1..Len(strs) : \A w \in waiting :
                           strs[k] < w
                      /\ Cardinality(timers) = Cardinality(waiting)
                      /\ Elements(strs) \cup waiting =
                           {i \in 0..5 : g.frets[i + 1] # -1}
                      /\ \A k \in 1..Len(played) :
                           played[k].fret = g.frets[played[k].stringIdx + 1]

\* a chord with muted strings has been played to its last note, in a tuning
\* whose offset is more than 6 away from standard, with a capo
C29_Witness ==
    /\ gesture # null
    /\ gesture[1].kind = "chord"
    /\ gesture[1].frets = <<3, -1, 0, 0, -1, 3>>
    /\ gesture[1].tuningOffsets = <<11, 2, 9, 0, 4, 11>>
    /\ gesture[1].capo = 7
    /\ timers = {}
    /\ StringsOf(played) = <<0, 2, 3, 5>>

\* at most one timeout of the picker is pending
SingleTimeout == Cardinality(timeouts) <= 1

\* at most one onSelect call since the latest scroll event, made
\* scrollDelay after it
OneCallPerBurst ==
    /\ burstCalls <= 1
    /\ lastSelect # null =>
         /\ lastSelect[1].calls = 1
         /\ lastSelect[1].sinceScroll = scrollDelay

\* onSelect is called only with an item whose key differs from the key of
\* the item selected when the call is made
CallOnlyOnChange ==
    lastSelect # null => lastSelect[1].item # lastSelect[1].selected

\* C30: in a scroll picker at most one selection timeout is pending at any
\* time; a burst of scroll events causes at most one onSelect call, made
\* 100 ms after the last event, and only when the key of the centred item
\* differs from the key of the currently selected item.
C30_PickerDebounce ==
    /\ SingleTimeout
    /\ OneCallPerBurst
    /\ CallOnlyOnChange

====
